---- MODULE Spec2Model ----
(***************************************************************************)
(* A model of dtsu666_fullFeature.py: the module-level initialisation, the *)
(* discovery announcement, and the poll loop of main().                    *)
(*                                                                         *)
(* Numbers.  A Python float is modelled as a record: "none" is None, "nan" *)
(* is a not-a-number float, and [kind |-> "num", m, e] is the decimal      *)
(* m * 10^-e.  Multiplication and round(x, ndigits) are computed on these  *)
(* decimals exactly; ties round half to even, as Python's round does.      *)
(* Broker and transport calls are library calls: each returns or raises,   *)
(* and the model draws the outcome.                                        *)
(***************************************************************************)
EXTENDS Integers, Sequences, FiniteSets, TLC

\* Number of poll cycles the cycle counter tells apart; later cycles count as
\* the last one.
MaxCycles == 2

----------------------------------------------------------------------------
\* Values

None == [kind |-> "none", m |-> 0, e |-> 0]

NaN == [kind |-> "nan", m |-> 0, e |-> 0]

Num(m, e) == [kind |-> "num", m |-> m, e |-> e]

RECURSIVE Pow10(_)
Pow10(n) == IF n = 0 THEN 1 ELSE 10 * Pow10(n - 1)

\* x * y on floats: a NaN operand gives NaN.
Mul(x, y) ==
    IF x.kind = "num" /\ y.kind = "num"
    THEN Num(x.m * y.m, x.e + y.e)
    ELSE NaN

\* x / k rounded to the nearest integer, ties to even (k > 0).
RoundDiv(x, k) ==
    LET q == x \div k
        r == x % k
    IN  IF 2 * r < k THEN q
        ELSE IF 2 * r > k THEN q + 1
        ELSE IF q % 2 = 0 THEN q ELSE q + 1

\* round(x, ndigits): NaN stays NaN; the result carries ndigits decimals.
Round(x, ndigits) ==
    IF x.kind # "num" THEN x
    ELSE IF x.e <= ndigits
         THEN Num(x.m * Pow10(ndigits - x.e), ndigits)
         ELSE Num(RoundDiv(x.m, Pow10(x.e - ndigits)), ndigits)

\* abs(x)
Abs(x) == IF x.kind = "num" /\ x.m < 0 THEN Num(-x.m, x.e) ELSE x

\* x < n and x > n for an integer literal n: every comparison with NaN is false.
Lt(x, n) == x.kind = "num" /\ x.m < n * Pow10(x.e)

Gt(x, n) == x.kind = "num" /\ x.m > n * Pow10(x.e)

----------------------------------------------------------------------------
\* Configuration and register catalog.  A Python string is the sequence of its
\* characters, so that lower(), replace() and f-string concatenation are
\* computed; a unit is compared as a whole and stays an atom.

MQTT_PREFIX == <<"c", "h", "i", "n", "t", "/", "d", "t", "s", "u", "6", "6", "6">>

DEVICE_NAME == <<"C", "h", "i", "n", "t", " ", "D", "T", "S", "U", "6", "6", "6">>

DEVICE_ID == <<"d", "t", "s", "u", "6", "6", "6", "_", "m", "e", "t", "e", "r">>

REGISTERS ==
    << [name |-> <<"V", "o", "l", "t", "a", "g", "e", "_", "A">>,
        addr |-> 8198, unit |-> "V", scale |-> Num(1, 1)],
       [name |-> <<"V", "o", "l", "t", "a", "g", "e", "_", "B">>,
        addr |-> 8200, unit |-> "V", scale |-> Num(1, 1)],
       [name |-> <<"V", "o", "l", "t", "a", "g", "e", "_", "C">>,
        addr |-> 8202, unit |-> "V", scale |-> Num(1, 1)],
       [name |-> <<"C", "u", "r", "r", "e", "n", "t", "_", "A">>,
        addr |-> 8204, unit |-> "A", scale |-> Num(1, 3)],
       [name |-> <<"C", "u", "r", "r", "e", "n", "t", "_", "B">>,
        addr |-> 8206, unit |-> "A", scale |-> Num(1, 3)],
       [name |-> <<"C", "u", "r", "r", "e", "n", "t", "_", "C">>,
        addr |-> 8208, unit |-> "A", scale |-> Num(1, 3)],
       [name |-> <<"P", "o", "w", "e", "r", "_", "A">>,
        addr |-> 8212, unit |-> "W", scale |-> Num(1, 1)],
       [name |-> <<"P", "o", "w", "e", "r", "_", "B">>,
        addr |-> 8214, unit |-> "W", scale |-> Num(1, 1)],
       [name |-> <<"P", "o", "w", "e", "r", "_", "C">>,
        addr |-> 8216, unit |-> "W", scale |-> Num(1, 1)],
       [name |-> <<"P", "o", "w", "e", "r", "_", "T", "o", "t", "a", "l">>,
        addr |-> 8210, unit |-> "W", scale |-> Num(1, 1)],
       [name |-> <<"F", "r", "e", "q", "u", "e", "n", "c", "y">>,
        addr |-> 8260, unit |-> "Hz", scale |-> Num(1, 2)],
       [name |-> <<"E", "n", "e", "r", "g", "y", "_", "I", "m", "p", "o", "r", "t">>,
        addr |-> 16414, unit |-> "kWh", scale |-> Num(1, 0)],
       [name |-> <<"E", "n", "e", "r", "g", "y", "_", "E", "x", "p", "o", "r", "t">>,
        addr |-> 16424, unit |-> "kWh", scale |-> Num(1, 0)] >>

NumRegisters == Len(REGISTERS)

\* The module-level list REGISTERS as the running program holds it: a mutable
\* list of dicts, which every loop iterates and nothing assigns to.
VARIABLE catalog

\* The floats instrument.read_float may return for a register of the given
\* unit: readings inside, at and beyond each plausibility bound, and NaN.
RawSamples(unit) ==
    {NaN} \cup
    CASE unit = "V"   -> {Num(-6, 1), Num(23010, 1), Num(99996, 1),
                          Num(100004, 1), Num(100006, 1)}
      [] unit = "A"   -> {Num(-6, 1), Num(51234, 1), Num(10000004, 1),
                          Num(10000006, 1)}
      [] unit = "W"   -> {Num(4999990, 1), Num(5000004, 1), Num(-5000004, 1),
                          Num(-5000100, 1)}
      [] unit = "Hz"  -> {Num(35000, 1), Num(39996, 1), Num(49980, 1),
                          Num(70004, 1), Num(70006, 1)}
      [] unit = "kWh" -> {Num(0, 1), Num(-15, 1), Num(9999999, 1)}

----------------------------------------------------------------------------
\* Value pipeline of main()

\* The if/elif chain that rounds final_value by unit.
RoundForUnit(unit, v) ==
    IF unit = "V" THEN Round(v, 1)
    ELSE IF unit = "A" THEN Round(v, 3)
    ELSE IF unit = "W" THEN Round(v, 1)
    ELSE IF unit = "Hz" THEN Round(v, 2)
    ELSE IF unit = "kWh" THEN Round(v, 3)
    ELSE v

\* final_value = float_value * reg["scale"], then rounded.
ScaleAndRound(reg, raw) == RoundForUnit(reg.unit, Mul(raw, reg.scale))

\* The extended plausibility check: TRUE when the value is reported
\* implausible and the descriptor skipped.
Implausible(unit, v) ==
    IF unit = "V" /\ (Lt(v, 0) \/ Gt(v, 1000)) THEN TRUE
    ELSE IF unit = "A" /\ (Lt(v, 0) \/ Gt(v, 1000)) THEN TRUE
    ELSE IF unit = "Hz" /\ (Lt(v, 40) \/ Gt(v, 70)) THEN TRUE
    ELSE IF unit = "W" /\ Gt(Abs(v), 50000) THEN TRUE
    ELSE FALSE

----------------------------------------------------------------------------
\* Strings

UpperCase ==
    <<"A", "B", "C", "D", "E", "F", "G", "H", "I", "J", "K", "L", "M",
      "N", "O", "P", "Q", "R", "S", "T", "U", "V", "W", "X", "Y", "Z">>

LowerCase ==
    <<"a", "b", "c", "d", "e", "f", "g", "h", "i", "j", "k", "l", "m",
      "n", "o", "p", "q", "r", "s", "t", "u", "v", "w", "x", "y", "z">>

\* str.lower()
Lower(s) ==
    [k \in 1..Len(s) |->
        IF \E j \in 1..Len(UpperCase) : UpperCase[j] = s[k]
        THEN LowerCase[CHOOSE j \in 1..Len(UpperCase) : UpperCase[j] = s[k]]
        ELSE s[k]]

\* str.replace(old, new) for single characters
Replace(s, old, new) == [k \in 1..Len(s) |-> IF s[k] = old THEN new ELSE s[k]]

----------------------------------------------------------------------------
\* Messages handed to the broker client

NoMsg == [kind |-> "none", idx |-> 0, topic |-> <<>>, payload |-> None,
          json |-> <<>>, retain |-> FALSE]

\* publish_discovery: state_topic = f"{MQTT_PREFIX}/{reg['name']}"
StateTopic(reg) == MQTT_PREFIX \o <<"/">> \o reg.name

\* Mutant of ConfigTopic: the topic is built without the sensor_id.
ConfigTopicPerDevice(reg) ==
    <<"h", "o", "m", "e", "a", "s", "s", "i", "s", "t", "a", "n", "t", "/",
      "s", "e", "n", "s", "o", "r", "/">>
    \o DEVICE_ID \o <<"/", "c", "o", "n", "f", "i", "g">>

\* topic_config = f"homeassistant/sensor/{DEVICE_ID}/{sensor_id}/config"
ConfigTopic(reg) ==
    <<"h", "o", "m", "e", "a", "s", "s", "i", "s", "t", "a", "n", "t", "/",
      "s", "e", "n", "s", "o", "r", "/">>
    \o DEVICE_ID \o <<"/">> \o Lower(reg.name)
    \o <<"/", "c", "o", "n", "f", "i", "g">>

\* json.dumps(payload): the keys in insertion order, each with its value.
DiscoveryPayload(reg) ==
    << <<"name", Replace(reg.name, "_", " ")>>,
       <<"state_topic", StateTopic(reg)>>,
       <<"unit_of_measurement", reg.unit>>,
       <<"unique_id", DEVICE_ID \o <<"_">> \o Lower(reg.name)>>,
       <<"device", << <<"identifiers", <<DEVICE_ID>> >>,
                      <<"name", DEVICE_NAME>>,
                      <<"model", <<"D", "T", "S", "U", "6", "6", "6">> >>,
                      <<"manufacturer", <<"C", "h", "i", "n", "t">> >> >> >> >>

\* mqtt_client.publish(topic_config, json.dumps(payload), retain=True)
DiscoveryMsg(k) ==
    [kind |-> "config", idx |-> k, topic |-> ConfigTopic(catalog[k]),
     payload |-> None, json |-> DiscoveryPayload(catalog[k]), retain |-> TRUE]

\* Mutant of TelemetryTopic: the name is lower-cased as for sensor_id.
TelemetryTopicLower(reg) == MQTT_PREFIX \o <<"/">> \o Lower(reg.name)

\* main: topic = f"{MQTT_PREFIX}/{reg['name']}"
TelemetryTopic(reg) == MQTT_PREFIX \o <<"/">> \o reg.name

\* mqtt_client.publish(topic, final_value): retain defaults to False.
TelemetryMsg(k, v) ==
    [kind |-> "state", idx |-> k, topic |-> TelemetryTopic(catalog[k]),
     payload |-> v, json |-> <<>>, retain |-> FALSE]

----------------------------------------------------------------------------
\* State

VARIABLES
    pc,               \* position of the single thread of control
    d,                \* publish_discovery: index of reg in REGISTERS
    i,                \* main: index of reg in REGISTERS
    successful_reads, \* main: successful_reads
    float_value,      \* main: float_value (None after a read error)
    final_value,      \* main: final_value
    inflight,         \* read exchanges with the meter that have not returned
    reqAddr,          \* register address of the read in progress, or 0
    printed,          \* the line the loop body printed for the descriptor:
                      \* "", "error_reading", "implausible", "value", "exception"
    wire,             \* the message of the publish call in progress, or NoMsg
    connack,          \* "none", "pending" (connect sent), "seen" (on_connect ran)
    cause,            \* why the process ended: "", "startup", "publish", "loop"
    cycle,            \* poll cycles started, counted up to MaxCycles
    discLog,          \* history: the discovery messages published, in order
    nReads,           \* history: reads issued in the current cycle
    nReadErr,         \* history: reads of the current cycle that failed
    nAccepted,        \* history: values of the current cycle that passed the check
    pubsThis,         \* history: telemetry publish calls of the last descriptor processed
    lastPubIdx,       \* history: index of the last descriptor published in the cycle
    summary,          \* history: the summaries printed in the current cycle
    pubOutcome,       \* history: how the descriptor's telemetry publish call ended
    interruptedAt     \* history: the position at which KeyboardInterrupt was raised

vars == <<pc, d, i, successful_reads, float_value, final_value, inflight, wire,
          connack, cause, cycle, discLog, nReads, nReadErr, nAccepted,
          pubsThis, lastPubIdx, summary, catalog, reqAddr, printed,
          pubOutcome, interruptedAt>>

locals == <<d, i, successful_reads, float_value, final_value>>

history == <<discLog, nReads, nReadErr, nAccepted, pubsThis, lastPubIdx, summary>>

\* The catalog, the output of the loop body and the rest of the history.
rest == <<catalog, printed, pubOutcome, interruptedAt>>

\* Positions inside main(), where KeyboardInterrupt is caught by __main__.
MainPcs == {"discovery", "discovery_pub", "cycle_start", "for", "reading",
            "got", "publish", "publishing", "summary", "loop", "sleep"}

\* Positions of the module-level initialisation, outside the try of __main__.
InitPcs == {"modbus_init", "mqtt_init"}

\* The outcomes of a call into the broker client: it returns success, returns
\* an error code (which the program never reads), or raises.
BrokerOutcomes == {"ok", "rc_error", "raise"}

Init ==
    /\ pc = "modbus_init"
    /\ d = 0
    /\ i = 0
    /\ successful_reads = 0
    /\ float_value = None
    /\ final_value = None
    /\ inflight = 0
    /\ wire = NoMsg
    /\ connack = "none"
    /\ cause = ""
    /\ cycle = 0
    /\ discLog = <<>>
    /\ nReads = 0
    /\ nReadErr = 0
    /\ nAccepted = 0
    /\ pubsThis = 0
    /\ lastPubIdx = 0
    /\ summary = <<>>
    /\ catalog = REGISTERS
    /\ reqAddr = 0
    /\ printed = ""
    /\ pubOutcome = ""
    /\ interruptedAt = ""

\* An exception leaves main() and the process: the frame's locals are gone.
Crash(why) ==
    /\ pc' = "crashed"
    /\ cause' = why
    /\ d' = 0
    /\ i' = 0
    /\ successful_reads' = 0
    /\ float_value' = None
    /\ final_value' = None
    /\ inflight' = 0
    /\ reqAddr' = 0
    /\ wire' = NoMsg

\* The exit status of the process: 1 after an exception nobody caught, 0 when
\* __main__ caught KeyboardInterrupt and the module ended, 130 after a
\* KeyboardInterrupt nobody caught; -1 while the process runs.
ExitStatus ==
    CASE pc = "crashed" -> 1
      [] pc = "stopped" -> 0
      [] pc = "killed" -> 130
      [] OTHER -> -1

----------------------------------------------------------------------------
\* Module initialisation

\* instrument = minimalmodbus.Instrument(...): opens the serial port or raises.
ModbusInit ==
    /\ pc = "modbus_init"
    /\ \/ /\ pc' = "mqtt_init"
          /\ UNCHANGED <<locals, inflight, reqAddr, wire, cause>>
       \/ Crash("startup")
    /\ UNCHANGED <<connack, cycle, history, rest>>

\* Mutant of MqttInit: a failed connect is caught and main() runs all the same.
MqttInitIgnoresFailure ==
    /\ pc = "mqtt_init"
    /\ pc' = "discovery"
    /\ d' = 1
    /\ \/ /\ connack' = "pending"
          /\ UNCHANGED cause
       \/ /\ cause' = "startup"
          /\ UNCHANGED connack
    /\ UNCHANGED <<i, successful_reads, float_value, final_value, inflight,
                   reqAddr, wire, cycle, history, rest>>

\* mqtt_client.connect(...): sends CONNECT or raises; then __main__ calls main().
MqttInit ==
    /\ pc = "mqtt_init"
    /\ \/ /\ pc' = "discovery"
          /\ connack' = "pending"
          /\ d' = 1
          /\ UNCHANGED <<i, successful_reads, float_value, final_value,
                         inflight, reqAddr, wire, cause>>
       \/ /\ Crash("startup")
          /\ UNCHANGED connack
    /\ UNCHANGED <<cycle, history, rest>>

----------------------------------------------------------------------------
\* publish_discovery()

\* Mutant of DiscoveryFinished: the loop ends after the first descriptor.
DiscoveryFinishedEarly == d > 1

\* for reg in REGISTERS is exhausted
DiscoveryFinished == d > NumRegisters

\* One pass of the loop body up to the publish call.
DiscoveryPublish ==
    /\ pc = "discovery"
    /\ ~DiscoveryFinished
    /\ wire' = DiscoveryMsg(d)
    /\ discLog' = Append(discLog, [idx |-> d, retain |-> DiscoveryMsg(d).retain])
    /\ pc' = "discovery_pub"
    /\ UNCHANGED <<locals, inflight, reqAddr, connack, cause, cycle, nReads,
                   nReadErr, nAccepted, pubsThis, lastPubIdx, summary, rest>>

\* Mutant of DiscoveryPublishReturn: after the publish the display name is
\* stored back into the descriptor.
DiscoveryPublishReturnRenames ==
    /\ pc = "discovery_pub"
    /\ \E outcome \in BrokerOutcomes :
          \/ /\ outcome \in {"ok", "rc_error"}
             /\ pc' = "discovery"
             /\ d' = d + 1
             /\ wire' = NoMsg
             /\ catalog' = [catalog EXCEPT
                               ![d].name = Replace(catalog[d].name, "_", " ")]
             /\ UNCHANGED <<i, successful_reads, float_value, final_value,
                            inflight, reqAddr, cause>>
          \/ /\ outcome = "raise"
             /\ Crash("publish")
             /\ UNCHANGED catalog
    /\ UNCHANGED <<connack, cycle, history, printed, pubOutcome, interruptedAt>>

\* The publish call returns, or raises out of main().
DiscoveryPublishReturn ==
    /\ pc = "discovery_pub"
    /\ \E outcome \in BrokerOutcomes :
          \/ /\ outcome \in {"ok", "rc_error"}
             /\ pc' = "discovery"
             /\ d' = d + 1
             /\ wire' = NoMsg
             /\ UNCHANGED <<i, successful_reads, float_value, final_value,
                            inflight, reqAddr, cause>>
          \/ /\ outcome = "raise"
             /\ Crash("publish")
    /\ UNCHANGED <<connack, cycle, history, rest>>

\* publish_discovery returns; main prints the two start lines.
DiscoveryDone ==
    /\ pc = "discovery"
    /\ DiscoveryFinished
    /\ pc' = "cycle_start"
    /\ UNCHANGED <<locals, inflight, reqAddr, wire, connack, cause, cycle,
                   history, rest>>

\* publish_discovery() is called a second time when the first call has
\* returned: the loop starts again at the first descriptor.
AnnounceAgain ==
    /\ pc = "discovery"
    /\ DiscoveryFinished
    /\ Len(discLog) = NumRegisters
    /\ d' = 1
    /\ UNCHANGED <<pc, i, successful_reads, float_value, final_value, inflight,
                   reqAddr, wire, connack, cause, cycle, history, rest>>

----------------------------------------------------------------------------
\* main(): one poll cycle

\* while True: print the timestamp, successful_reads = 0, start the for loop.
CycleStart ==
    /\ pc = "cycle_start"
    /\ successful_reads' = 0
    /\ i' = 1
    /\ float_value' = None
    /\ final_value' = None
    /\ pc' = "for"
    /\ cycle' = IF cycle < MaxCycles THEN cycle + 1 ELSE cycle
    /\ nReads' = 0
    /\ nReadErr' = 0
    /\ nAccepted' = 0
    /\ pubsThis' = 0
    /\ lastPubIdx' = 0
    /\ summary' = <<>>
    /\ printed' = ""
    /\ pubOutcome' = ""
    /\ UNCHANGED <<d, inflight, reqAddr, wire, connack, cause, discLog,
                   catalog, interruptedAt>>

\* read_register_value calls instrument.read_float(addr, functioncode=3).
\* float_value and final_value of the descriptor before are never read again
\* and are forgotten here.
ReadCall ==
    /\ pc = "for"
    /\ i <= NumRegisters
    /\ inflight' = inflight + 1
    /\ reqAddr' = catalog[i].addr
    /\ nReads' = nReads + 1
    /\ pubsThis' = 0
    /\ float_value' = None
    /\ final_value' = None
    /\ printed' = ""
    /\ pubOutcome' = ""
    /\ pc' = "reading"
    /\ UNCHANGED <<d, i, successful_reads, wire, connack, cause, cycle,
                   discLog, nReadErr, nAccepted, lastPubIdx, summary,
                   catalog, interruptedAt>>

\* Mutant of ReadReturn: a failed read is given up without waiting for the
\* exchange to end.
ReadReturnLeavesOutstanding ==
    /\ pc = "reading"
    /\ \/ /\ \E v \in RawSamples(catalog[i].unit) : float_value' = v
          /\ inflight' = inflight - 1
          /\ reqAddr' = 0
          /\ UNCHANGED nReadErr
       \/ /\ float_value' = None
          /\ nReadErr' = nReadErr + 1
          /\ UNCHANGED <<inflight, reqAddr>>
    /\ pc' = "got"
    /\ UNCHANGED <<d, i, successful_reads, final_value, wire, connack, cause,
                   cycle, discLog, nReads, nAccepted, pubsThis, lastPubIdx,
                   summary, rest>>

\* read_float returns a float, or raises and read_register_value returns None.
ReadReturn ==
    /\ pc = "reading"
    /\ \/ /\ \E v \in RawSamples(catalog[i].unit) : float_value' = v
          /\ UNCHANGED nReadErr
       \/ /\ float_value' = None
          /\ nReadErr' = nReadErr + 1
    /\ inflight' = inflight - 1
    /\ reqAddr' = 0
    /\ pc' = "got"
    /\ UNCHANGED <<d, i, successful_reads, final_value, wire, connack, cause,
                   cycle, discLog, nReads, nAccepted, pubsThis, lastPubIdx,
                   summary, rest>>

\* Mutant of ProcessNone: break instead of continue.
ProcessNoneBreak ==
    /\ pc = "got"
    /\ float_value = None
    /\ i' = NumRegisters + 1
    /\ pc' = "for"
    /\ printed' = "error_reading"
    /\ UNCHANGED <<d, successful_reads, float_value, final_value, inflight,
                   reqAddr, wire, connack, cause, cycle, history, catalog,
                   pubOutcome, interruptedAt>>

\* Mutant of ProcessNone: the failed read is tried again at once.
ProcessNoneRetry ==
    /\ pc = "got"
    /\ float_value = None
    /\ pc' = "for"
    /\ printed' = "error_reading"
    /\ UNCHANGED <<d, i, successful_reads, float_value, final_value, inflight,
                   reqAddr, wire, connack, cause, cycle, history, catalog,
                   pubOutcome, interruptedAt>>

\* if float_value is None: print "Error reading"; continue
ProcessNone ==
    /\ pc = "got"
    /\ float_value = None
    /\ i' = i + 1
    /\ pc' = "for"
    /\ printed' = "error_reading"
    /\ UNCHANGED <<d, successful_reads, float_value, final_value, inflight,
                   reqAddr, wire, connack, cause, cycle, history, catalog,
                   pubOutcome, interruptedAt>>

\* Mutant of Process: the continue after "Implausible" is missing.
ProcessNoSkip ==
    /\ pc = "got"
    /\ float_value # None
    /\ final_value' = ScaleAndRound(catalog[i], float_value)
    /\ pc' = "publish"
    /\ IF Implausible(catalog[i].unit, final_value')
       THEN printed' = "implausible" /\ UNCHANGED nAccepted
       ELSE nAccepted' = nAccepted + 1 /\ UNCHANGED printed
    /\ UNCHANGED <<d, i, successful_reads, float_value, inflight, reqAddr,
                   wire, connack, cause, cycle, discLog, nReads, nReadErr,
                   pubsThis, lastPubIdx, summary, catalog, pubOutcome,
                   interruptedAt>>

\* Mutant of Process: the check runs on the scaled value before it is rounded.
ProcessCheckUnrounded ==
    /\ pc = "got"
    /\ float_value # None
    /\ final_value' = ScaleAndRound(catalog[i], float_value)
    /\ IF Implausible(catalog[i].unit, Mul(float_value, catalog[i].scale))
       THEN /\ i' = i + 1
            /\ pc' = "for"
            /\ printed' = "implausible"
            /\ UNCHANGED nAccepted
       ELSE /\ pc' = "publish"
            /\ nAccepted' = nAccepted + 1
            /\ UNCHANGED <<i, printed>>
    /\ UNCHANGED <<d, successful_reads, float_value, inflight, reqAddr, wire,
                   connack, cause, cycle, discLog, nReads, nReadErr, pubsThis,
                   lastPubIdx, summary, catalog, pubOutcome, interruptedAt>>

\* Mutant of Process: the check uses the unit of the descriptor before.
ProcessStaleUnit ==
    /\ pc = "got"
    /\ float_value # None
    /\ final_value' = ScaleAndRound(catalog[i], float_value)
    /\ IF Implausible(catalog[IF i > 1 THEN i - 1 ELSE i].unit, final_value')
       THEN /\ i' = i + 1
            /\ pc' = "for"
            /\ printed' = "implausible"
            /\ UNCHANGED nAccepted
       ELSE /\ pc' = "publish"
            /\ nAccepted' = nAccepted + 1
            /\ UNCHANGED <<i, printed>>
    /\ UNCHANGED <<d, successful_reads, float_value, inflight, reqAddr, wire,
                   connack, cause, cycle, discLog, nReads, nReadErr, pubsThis,
                   lastPubIdx, summary, catalog, pubOutcome, interruptedAt>>

\* Scale, round, and check: an implausible value is printed and skipped.
Process ==
    /\ pc = "got"
    /\ float_value # None
    /\ final_value' = ScaleAndRound(catalog[i], float_value)
    /\ IF Implausible(catalog[i].unit, final_value')
       THEN /\ i' = i + 1
            /\ pc' = "for"
            /\ printed' = "implausible"
            /\ UNCHANGED nAccepted
       ELSE /\ pc' = "publish"
            /\ nAccepted' = nAccepted + 1
            /\ UNCHANGED <<i, printed>>
    /\ UNCHANGED <<d, successful_reads, float_value, inflight, reqAddr, wire,
                   connack, cause, cycle, discLog, nReads, nReadErr, pubsThis,
                   lastPubIdx, summary, catalog, pubOutcome, interruptedAt>>

\* mqtt_client.publish(topic, final_value) is called.
PublishCall ==
    /\ pc = "publish"
    /\ wire' = TelemetryMsg(i, final_value)
    /\ pubsThis' = pubsThis + 1
    /\ lastPubIdx' = i
    /\ pc' = "publishing"
    /\ UNCHANGED <<locals, inflight, reqAddr, connack, cause, cycle, discLog,
                   nReads, nReadErr, nAccepted, summary, rest>>

\* Mutant of PublishReturn: a publish that raised is tried again.
PublishReturnRetry ==
    /\ pc = "publishing"
    /\ \E outcome \in BrokerOutcomes :
          /\ pubOutcome' = outcome
          /\ \/ /\ outcome \in {"ok", "rc_error"}
                /\ successful_reads' = successful_reads + 1
                /\ printed' = "value"
                /\ i' = i + 1
                /\ pc' = "for"
             \/ /\ outcome = "raise"
                /\ printed' = "exception"
                /\ pc' = "publish"
                /\ UNCHANGED <<successful_reads, i>>
    /\ wire' = NoMsg
    /\ UNCHANGED <<d, float_value, final_value, inflight, reqAddr, connack,
                   cause, cycle, history, catalog, interruptedAt>>

\* The publish call returns and the value is printed and counted, or it
\* raises and the except clause of the loop body prints the exception.
PublishReturn ==
    /\ pc = "publishing"
    /\ \E outcome \in BrokerOutcomes :
          /\ pubOutcome' = outcome
          /\ \/ /\ outcome \in {"ok", "rc_error"}
                /\ successful_reads' = successful_reads + 1
                /\ printed' = "value"
             \/ /\ outcome = "raise"
                /\ printed' = "exception"
                /\ UNCHANGED successful_reads
    /\ wire' = NoMsg
    /\ i' = i + 1
    /\ pc' = "for"
    /\ UNCHANGED <<d, float_value, final_value, inflight, reqAddr, connack,
                   cause, cycle, history, catalog, interruptedAt>>

\* Mutant of ForExhausted: the summary is skipped when nothing was counted.
ForExhaustedQuiet ==
    /\ pc = "for"
    /\ i > NumRegisters
    /\ pc' = IF successful_reads = 0 THEN "loop" ELSE "summary"
    /\ UNCHANGED <<locals, inflight, reqAddr, wire, connack, cause, cycle,
                   history, rest>>

\* The for loop is exhausted.
ForExhausted ==
    /\ pc = "for"
    /\ i > NumRegisters
    /\ pc' = "summary"
    /\ UNCHANGED <<locals, inflight, reqAddr, wire, connack, cause, cycle,
                   history, rest>>

\* print(f"Successfully read: {successful_reads}/{len(REGISTERS)}")
Summary ==
    /\ pc = "summary"
    /\ summary' = Append(summary, [successCount |-> successful_reads,
                                   totalCount |-> Len(catalog)])
    /\ pc' = "loop"
    /\ UNCHANGED <<locals, inflight, reqAddr, wire, connack, cause, cycle,
                   discLog, nReads, nReadErr, nAccepted, pubsThis, lastPubIdx,
                   rest>>

\* on_connect, called by the network loop when the broker's CONNACK is read.
OnConnect ==
    /\ pc = "loop"
    /\ connack = "pending"
    /\ connack' = "seen"
    /\ UNCHANGED <<pc, locals, inflight, reqAddr, wire, cause, cycle, history,
                   rest>>

\* mqtt_client.loop() returns, or raises out of main().
Loop ==
    /\ pc = "loop"
    /\ \E outcome \in BrokerOutcomes :
          \/ /\ outcome \in {"ok", "rc_error"}
             /\ pc' = "sleep"
             /\ UNCHANGED <<locals, inflight, reqAddr, wire, cause>>
          \/ /\ outcome = "raise"
             /\ Crash("loop")
    /\ UNCHANGED <<connack, cycle, history, rest>>

\* time.sleep(MEASUREMENT_INTERVAL) returns.
Sleep ==
    /\ pc = "sleep"
    /\ pc' = "cycle_start"
    /\ UNCHANGED <<locals, inflight, reqAddr, wire, connack, cause, cycle,
                   history, rest>>

\* Mutant of ExceptException: a bare except clause, which catches everything.
ExceptBare(exc) == TRUE

\* except Exception as e: whether the clause catches an exception of class
\* exc.  KeyboardInterrupt derives from BaseException, not from Exception.
ExceptException(exc) == exc # "KeyboardInterrupt"

\* KeyboardInterrupt is raised at the current position.  An except clause
\* around the position handles it if it catches it: in read_register_value
\* the read returns None, in the loop body the exception is printed and the
\* loop goes on.  Otherwise it unwinds: out of main() to __main__, which
\* prints "Terminated by user"; during the module initialisation out of the
\* program.
Interrupt ==
    /\ pc \in MainPcs \cup InitPcs
    /\ interruptedAt' = pc
    /\ IF pc = "reading" /\ ExceptException("KeyboardInterrupt")
       THEN /\ pc' = "got"
            /\ float_value' = None
            /\ nReadErr' = nReadErr + 1
            /\ UNCHANGED <<d, i, successful_reads, final_value, wire, printed>>
       ELSE IF pc \in {"reading", "got", "publish", "publishing"}
                /\ ExceptException("KeyboardInterrupt")
       THEN /\ pc' = "for"
            /\ i' = i + 1
            /\ wire' = NoMsg
            /\ printed' = "exception"
            /\ UNCHANGED <<d, successful_reads, float_value, final_value,
                           nReadErr>>
       ELSE /\ pc' = IF pc \in MainPcs THEN "stopped" ELSE "killed"
            /\ d' = 0
            /\ i' = 0
            /\ successful_reads' = 0
            /\ float_value' = None
            /\ final_value' = None
            /\ wire' = NoMsg
            /\ UNCHANGED <<nReadErr, printed>>
    /\ inflight' = 0
    /\ reqAddr' = 0
    /\ UNCHANGED <<connack, cause, cycle, discLog, nReads, nAccepted, pubsThis,
                   lastPubIdx, summary, catalog, pubOutcome>>

Next ==
    \/ ModbusInit
    \/ MqttInit
    \/ DiscoveryPublish
    \/ DiscoveryPublishReturn
    \/ DiscoveryDone
    \/ CycleStart
    \/ ReadCall
    \/ ReadReturn
    \/ ProcessNone
    \/ Process
    \/ PublishCall
    \/ PublishReturn
    \/ ForExhausted
    \/ Summary
    \/ OnConnect
    \/ Loop
    \/ Sleep
    \/ Interrupt

Spec == Init /\ [][Next]_vars

\* The program with publish_discovery() called twice before polling.
NextAnnounceTwice == Next \/ AnnounceAgain

SpecAnnounceTwice == Init /\ [][NextAnnounceTwice]_vars

----------------------------------------------------------------------------
\* Properties

\* Positions of the pass over the catalog, before the summary is printed.
PassPcs == {"for", "reading", "got", "publish", "publishing"}

\* The descriptor whose processing the state last finished or is working on.
DoneReg == REGISTERS[i - 1]

\* C1: a read error on one descriptor never keeps the remaining descriptors of
\* the catalog from being read in the same cycle: during the pass every
\* descriptor up to the current one has been read, whatever the number of
\* failed reads, and when the pass ends all of the catalog has been read.
C1_ReadErrorDoesNotStopCycle ==
    /\ pc = "for" => nReads = i - 1
    /\ pc \in {"reading", "got", "publish", "publishing"} => nReads = i
    /\ pc \in {"summary", "loop", "sleep"} => nReads = NumRegisters
    /\ nReadErr <= nReads

\* A cycle ends its pass after a read failed, and the last descriptor of the
\* catalog was still read, accepted and published.
C1_Witness ==
    /\ pc = "summary"
    /\ nReadErr >= 1
    /\ lastPubIdx = NumRegisters

\* C2: when the summary is printed, successCount is the number of values
\* accepted in this cycle (read succeeded, rounded value passed the check) and
\* totalCount is the catalog size, whatever reads and publishes failed.
C2_SummaryCountsAccepted ==
    \A k \in 1..Len(summary) :
        /\ summary[k].successCount = nAccepted
        /\ summary[k].totalCount = NumRegisters

\* C3: a descriptor gets a telemetry publish call in a cycle exactly when its
\* read succeeded and its rounded value passed the plausibility check, and then
\* exactly one; a read error or an implausible value gets none.
C3_PublishedIffAccepted ==
    /\ pubsThis <= 1
    /\ (pc = "for" /\ i > 1) =>
          (pubsThis = 1 <=>
              (float_value # None /\ ~Implausible(DoneReg.unit, final_value)))
    /\ pc \in {"reading", "got", "publish"} => pubsThis = 0
    /\ wire.kind = "state" =>
          /\ wire.idx = i
          /\ pubsThis = 1
          /\ float_value # None
          /\ ~Implausible(REGISTERS[i].unit, wire.payload)

\* After three descriptors: one was published, one failed to read, and the
\* third was read and rejected without a publish.
C3_Witness ==
    /\ pc = "for"
    /\ i = 4
    /\ nAccepted = 1
    /\ nReadErr = 1
    /\ float_value # None
    /\ pubsThis = 0

\* The reference table of the plausibility check.
RefAccept(unit, v) ==
    CASE unit \in {"V", "A"} ->
             v.kind = "num" /\ 0 <= v.m /\ v.m <= 1000 * Pow10(v.e)
      [] unit = "Hz" ->
             v.kind = "num" /\ 40 * Pow10(v.e) <= v.m /\ v.m <= 70 * Pow10(v.e)
      [] unit = "W" ->
             v.kind = "num" /\ -50000 * Pow10(v.e) <= v.m
                            /\ v.m <= 50000 * Pow10(v.e)
      [] unit = "kWh" -> TRUE

\* C4: the accept/reject decision on the rounded value equals the reference
\* table for every value: Volt and Ampere accepted exactly when
\* 0 <= value <= 1000, Hertz when 40 <= value <= 70, Watt when
\* |value| <= 50000, KilowattHour always.
C4_DecisionMatchesTable ==
    /\ pc \in {"publish", "publishing"} =>
          RefAccept(REGISTERS[i].unit, final_value)
    /\ (pc = "for" /\ i > 1 /\ float_value # None) =>
          (pubsThis = 1 <=> RefAccept(DoneReg.unit, final_value))

\* The decimal places of a unit's published value.
RefPrecision(unit) ==
    CASE unit \in {"V", "W"} -> 1
      [] unit = "Hz" -> 2
      [] unit \in {"A", "kWh"} -> 3

\* q is raw * scale rounded to the unit's precision: it has that many
\* decimals and no number with that many decimals is nearer to raw * scale.
IsRounding(q, raw, reg) ==
    IF raw.kind # "num" THEN q = raw
    ELSE /\ q.kind = "num"
         /\ q.e = RefPrecision(reg.unit)
         /\ LET x == raw.m * reg.scale.m
                e == raw.e + reg.scale.e
            IN  IF e >= q.e
                THEN LET k == Pow10(e - q.e)
                         diff == x - q.m * k
                     IN  2 * diff <= k /\ -2 * diff <= k
                ELSE q.m = x * Pow10(q.e - e)

\* C5: scaling and rounding come before the plausibility check, and the number
\* checked is the number published: the payload of a telemetry message is
\* raw * scale rounded to the unit's precision, and the decision to publish is
\* the check's verdict on that rounded number.
C5_RoundedValueCheckedAndPublished ==
    /\ wire.kind = "state" =>
          /\ wire.payload = final_value
          /\ IsRounding(wire.payload, float_value, REGISTERS[i])
    /\ pc \in {"publish", "publishing"} =>
          /\ IsRounding(final_value, float_value, REGISTERS[i])
          /\ ~Implausible(REGISTERS[i].unit, final_value)
    /\ (pc = "for" /\ i > 1 /\ float_value # None) =>
          /\ IsRounding(final_value, float_value, DoneReg)
          /\ pubsThis = 1 <=> ~Implausible(DoneReg.unit, final_value)

\* Voltage_A reads 10000.4: scaled it is 1000.04, above the bound; rounded it
\* is 1000.0, which is accepted and published.
C5_Witness ==
    /\ wire.kind = "state"
    /\ wire.idx = 1
    /\ float_value = Num(100004, 1)
    /\ wire.payload = Num(10000, 1)

\* Every descriptor's discovery message was published once, retained, in
\* catalog order.
AnnouncedAll ==
    /\ Len(discLog) = NumRegisters
    /\ \A k \in 1..NumRegisters : discLog[k] = [idx |-> k, retain |-> TRUE]

\* C6: the announcement runs once, before the first poll cycle: no read is
\* issued and no telemetry is published before every descriptor's discovery
\* message has been published with retain set, and no discovery message is
\* published once polling has started.
C6_AnnounceOnceBeforePolling ==
    /\ (cycle >= 1 \/ nReads > 0 \/ inflight > 0 \/ wire.kind = "state"
            \/ pc \in PassPcs \cup {"cycle_start", "summary", "loop", "sleep"})
          => AnnouncedAll
    /\ wire.kind = "config" =>
          /\ pc = "discovery_pub"
          /\ cycle = 0
          /\ wire.retain
          /\ discLog[Len(discLog)].idx = wire.idx
    /\ Len(discLog) <= NumRegisters
    /\ \A k \in 1..Len(discLog) : discLog[k].idx = k

\* In the second cycle a telemetry publish is in progress.
C6_Witness ==
    /\ cycle = 2
    /\ pc = "publishing"
    /\ wire.kind = "state"
    /\ AnnouncedAll

\* C7: within a cycle telemetry is published in catalog order, and a cycle
\* starts only when the reads, the publishes and the summary of the cycle
\* before it are complete.
C7_OrderedAndNoOverlap ==
    [][ /\ (wire'.kind = "state" /\ wire.kind # "state") =>
              /\ wire'.idx > lastPubIdx
              /\ lastPubIdx' = wire'.idx
              /\ cycle' = cycle
        /\ nReads' > nReads => cycle' = cycle
        /\ (pc = "cycle_start" /\ pc' = "for") =>
              /\ inflight = 0
              /\ wire = NoMsg
              /\ cycle >= 1 => (nReads = NumRegisters /\ Len(summary) = 1)
      ]_vars

\* The second descriptor published in the second cycle.
C7_Witness ==
    /\ cycle = 2
    /\ wire.kind = "state"
    /\ nAccepted = 2
    /\ lastPubIdx = 5

\* C8: at most one read exchange with the meter is in flight: a read is in
\* flight only while read_register_value runs, none is in flight when the next
\* is issued, and none while the network loop and on_connect run.
C8_OneReadInFlight ==
    /\ inflight \in {0, 1}
    /\ inflight = 1 <=> pc = "reading"
    /\ pc \in {"for", "loop"} => inflight = 0

\* A read is in flight after an earlier read of the cycle failed and after
\* on_connect has run.
C8_Witness ==
    /\ inflight = 1
    /\ nReadErr >= 1
    /\ connack = "seen"

\* C9: only a startup failure ends the process with an error: once the
\* initialisation has succeeded no read error, implausible value or publish
\* failure does.
C9_OnlyStartupFailureEscapes == pc = "crashed" => cause = "startup"

\* C10: a cycle that is not interrupted prints exactly one summary, after the
\* full pass over the catalog and before the sleep.
C10_OneSummaryPerCycle ==
    /\ pc \in PassPcs \cup {"summary"} => summary = <<>>
    /\ pc = "summary" => nReads = NumRegisters
    /\ pc \in {"loop", "sleep"} => Len(summary) = 1
    /\ (pc = "cycle_start" /\ cycle >= 1) => Len(summary) = 1
    /\ \A k \in 1..Len(summary) : summary[k].totalCount = NumRegisters

\* Every read of the cycle failed and the summary 0/13 was printed.
C10_Witness ==
    /\ pc = "sleep"
    /\ nReadErr = NumRegisters
    /\ summary = <<[successCount |-> 0, totalCount |-> NumRegisters]>>

\* C11: a telemetry publish that fails for an accepted descriptor is reported,
\* is not tried again, and does not stop the pass: when the loop body has
\* ended after a publish call that raised or returned an error code, the
\* exception line was printed for the descriptor, the publish was called once
\* for it, and the loop stands at the descriptor after it.
C11_PublishFailureReportedNoRetry ==
    /\ pubsThis <= 1
    /\ (pc = "for" /\ pubOutcome \in {"rc_error", "raise"}) =>
          /\ printed = "exception"
          /\ pubsThis = 1
          /\ i = lastPubIdx + 1
    /\ pc \in {"summary", "loop", "sleep"} => nReads = NumRegisters

\* C12: once KeyboardInterrupt has been raised, at whatever position, the
\* program has stopped and stays stopped: no read is outstanding, no message
\* is on its way to the broker, and no step follows.  The except clauses of
\* read_register_value and of the loop body do not take the interrupt: it
\* never turns into a read error or into a printed exception.
C12_InterruptStopsAllIO ==
    interruptedAt # "" =>
        /\ pc = IF interruptedAt \in MainPcs THEN "stopped" ELSE "killed"
        /\ inflight = 0
        /\ reqAddr = 0
        /\ wire = NoMsg
        /\ ~ENABLED Next

\* The interrupt arrived while a read was outstanding in the second cycle and
\* the program stopped.
C12_Witness ==
    /\ pc = "stopped"
    /\ interruptedAt = "reading"
    /\ cycle = MaxCycles
    /\ nReads >= 2

FirstAnnouncement(k) ==
    [kind |-> "config", idx |-> k, topic |-> ConfigTopic(REGISTERS[k]),
     payload |-> None, json |-> DiscoveryPayload(REGISTERS[k]),
     retain |-> TRUE]

\* C14: publish_discovery is idempotent.  When it is called a second time,
\* every discovery message has the topic and the payload of the first call
\* for its descriptor, and the calls leave the catalog as it was and the
\* counters of the poll cycle untouched.
C14_AnnounceIdempotent ==
    /\ wire.kind = "config" => wire = FirstAnnouncement(wire.idx)
    /\ \A k \in 1..Len(discLog) :
          discLog[k].idx = ((k - 1) % NumRegisters) + 1
    /\ catalog = REGISTERS
    /\ pc \in {"discovery", "discovery_pub"} =>
          /\ cycle = 0
          /\ successful_reads = 0
          /\ i = 0

\* The second call of publish_discovery has a message of the last descriptor
\* on its way to the broker.
C14_Witness ==
    /\ pc = "discovery_pub"
    /\ Len(discLog) = 2 * NumRegisters
    /\ wire = FirstAnnouncement(NumRegisters)

\* C15: polling repeats forever.  As long as no KeyboardInterrupt has been
\* raised, the program that has started its first cycle is inside a cycle or
\* between two cycles, whatever reads fail, values are rejected and publishes
\* fail: it has not ended.
C15_PollingNeverEndsByItself ==
    (cycle >= 1 /\ interruptedAt = "") => pc \in MainPcs

\* C16: in every cycle each descriptor is read by exactly one exchange, in the
\* order of the catalog.  The n-th read of a cycle asks for the address of
\* the n-th descriptor, whatever happened to the descriptors before it: a
\* failed read is not tried again and no descriptor is left out.  The pass
\* ends after as many reads as the catalog has descriptors.
C16_OneReadPerDescriptorInOrder ==
    /\ pc = "reading" =>
          /\ reqAddr = REGISTERS[nReads].addr
          /\ nReads = i
    /\ pc # "reading" => reqAddr = 0
    /\ nReads <= NumRegisters
    /\ pc = "for" => nReads = i - 1
    /\ pc \in {"summary", "loop", "sleep"} => nReads = NumRegisters

\* The third descriptor is being read after the read of the first failed and
\* the value of the second was rejected.
C16_Witness ==
    /\ pc = "reading"
    /\ nReads = 3
    /\ reqAddr = REGISTERS[3].addr
    /\ nReadErr = 1
    /\ nAccepted = 0

\* What the loop body prints for a descriptor, as a function of the
\* descriptor and of its raw reading alone.
OutcomeOf(reg, raw) ==
    IF raw = None THEN {"error_reading"}
    ELSE IF Implausible(reg.unit, ScaleAndRound(reg, raw)) THEN {"implausible"}
    ELSE {"value", "exception"}

\* A step of the pass over the catalog changes nothing but the locals of the
\* loop body, the count and the message on its way.
PassFrame ==
    (pc \in PassPcs /\ pc' \in PassPcs) =>
        /\ catalog' = catalog
        /\ d' = d
        /\ connack' = connack
        /\ cycle' = cycle
        /\ discLog' = discLog
        /\ summary' = summary
        /\ successful_reads' \in {successful_reads, successful_reads + 1}

\* When the loop body has ended for a descriptor, what was printed and what
\* was published is determined by the descriptor and its own raw reading.
OutcomeIsOwn ==
    /\ (pc = "for" /\ i > 1) =>
          /\ printed \in OutcomeOf(REGISTERS[i - 1], float_value)
          /\ printed \in {"value", "exception"} =>
                /\ lastPubIdx = i - 1
                /\ final_value = ScaleAndRound(REGISTERS[i - 1], float_value)
    /\ wire.kind = "state" =>
          /\ wire.idx = i
          /\ wire.payload = ScaleAndRound(REGISTERS[i], float_value)
    /\ catalog = REGISTERS

\* C17: the processing of a descriptor is independent.  Its outcome (read
\* error, rejected, or published with a value) is a function of its own raw
\* reading and of its descriptor only, not of what happened to the other
\* descriptors or in an earlier cycle; the processing changes the count of the
\* cycle and nothing else that outlives it, and the catalog stays as it was.
C17_DescriptorsIndependent == []OutcomeIsOwn /\ [][PassFrame]_vars

\* In the second cycle a current is published after the read of the
\* descriptor before it failed.
C17_Witness ==
    /\ cycle = MaxCycles
    /\ pc = "for"
    /\ i = 5
    /\ printed = "value"
    /\ lastPubIdx = 4
    /\ nReadErr >= 1
    /\ nAccepted = 1

\* The unique_id publish_discovery writes into the document of a descriptor.
UniqueIdOf(reg) == DiscoveryPayload(reg)[4][2]

\* The names, the lower-cased names, the discovery topics, the unique_id
\* values and the telemetry topics of the catalog of the source text are
\* pairwise distinct, and every unique_id is DEVICE_ID, "_" and the
\* lower-cased name.
CatalogDistinct ==
    /\ \A j, k \in 1..NumRegisters :
          j # k =>
             /\ REGISTERS[j].name # REGISTERS[k].name
             /\ Lower(REGISTERS[j].name) # Lower(REGISTERS[k].name)
             /\ ConfigTopic(REGISTERS[j]) # ConfigTopic(REGISTERS[k])
             /\ UniqueIdOf(REGISTERS[j]) # UniqueIdOf(REGISTERS[k])
             /\ TelemetryTopic(REGISTERS[j]) # TelemetryTopic(REGISTERS[k])
    /\ \A k \in 1..NumRegisters :
          UniqueIdOf(REGISTERS[k])
             = DEVICE_ID \o <<"_">> \o Lower(REGISTERS[k].name)

\* C18: the names of the descriptors are pairwise distinct and stay distinct
\* when lower-cased, so distinct descriptors have distinct discovery topics,
\* distinct unique_id values and distinct telemetry topics: a message on its
\* way to the broker carries a topic, and a discovery document a unique_id,
\* that belongs to no other descriptor of the catalog the program holds.
C18_NamesTopicsIdsDistinct ==
    /\ CatalogDistinct
    /\ catalog = REGISTERS
    /\ wire.kind = "config" =>
          \A k \in 1..Len(catalog) :
             k # wire.idx =>
                /\ DiscoveryMsg(k).topic # wire.topic
                /\ DiscoveryMsg(k).json[4] # wire.json[4]
    /\ wire.kind = "state" =>
          \A k \in 1..Len(catalog) :
             k # wire.idx => TelemetryTopic(catalog[k]) # wire.topic

\* The discovery document of the second descriptor is on its way to the
\* broker, after the document of the first one.
C18_Witness ==
    /\ pc = "discovery_pub"
    /\ wire.kind = "config"
    /\ wire.idx = 2
    /\ wire.json[4] = <<"unique_id", DEVICE_ID \o <<"_">> \o Lower(REGISTERS[2].name)>>
    /\ Len(discLog) = 2

\* The state_topic publish_discovery writes into the document of a descriptor.
AnnouncedStateTopic(reg) == DiscoveryPayload(reg)[2][2]

\* C19: the state_topic announced for a descriptor is the topic its telemetry
\* is published on: every telemetry message goes to MQTT_PREFIX, "/" and the
\* name of its descriptor with its letter case kept, which is the state_topic
\* of the discovery document of the same descriptor, and that document was
\* published before.  Discovery messages are published retained, telemetry
\* messages are not.
C19_TelemetryOnAnnouncedTopic ==
    /\ wire.kind = "state" =>
          /\ wire.topic = AnnouncedStateTopic(REGISTERS[wire.idx])
          /\ wire.topic = MQTT_PREFIX \o <<"/">> \o REGISTERS[wire.idx].name
          /\ ~wire.retain
          /\ Len(discLog) = NumRegisters
          /\ discLog[wire.idx].idx = wire.idx
    /\ wire.kind = "config" =>
          /\ wire.retain
          /\ wire.json[2] = <<"state_topic",
                              MQTT_PREFIX \o <<"/">> \o REGISTERS[wire.idx].name>>
    /\ \A k \in 1..Len(discLog) : discLog[k].retain

\* The telemetry of Power_Total, a name with capital letters, is on its way
\* to the broker in the second cycle.
C19_Witness ==
    /\ wire.kind = "state"
    /\ wire.idx = 10
    /\ wire.topic = AnnouncedStateTopic(REGISTERS[10])
    /\ wire.topic # Lower(wire.topic)
    /\ cycle = MaxCycles

\* The units for which the plausibility check of main has a bound.
BoundedUnits == {"V", "A", "Hz", "W"}

\* C20: a reading that is not a number is never published and never counted
\* for a descriptor whose unit has a plausibility bound: no telemetry message
\* of such a descriptor carries NaN, and when the loop body has ended for
\* such a descriptor with a NaN reading the value was reported as implausible.
C20_NaNNeverPublished ==
    /\ (wire.kind = "state" /\ REGISTERS[wire.idx].unit \in BoundedUnits) =>
          wire.payload # NaN
    /\ (pc = "for" /\ i > 1 /\ float_value = NaN
          /\ REGISTERS[i - 1].unit \in BoundedUnits) =>
          printed = "implausible"

====
